---- MODULE Spec2Model ----
(***************************************************************************)
(* Model of the OpenPayments practice client: GNAPClient (grant            *)
(* negotiation), ResourceClient (token-authorized payment resources) and   *)
(* OpenPaymentsClient (signed quote and outgoing-payment creation).        *)
(*                                                                         *)
(* Four specifications share the variables: Spec (one caller making the    *)
(* calls one after another), SignSpec (_sign_request on its own), FlowSpec *)
(* (main of examples/05_bob_alice_flow.py) and ConcSpec (one thread per    *)
(* client instance).                                                       *)
(*                                                                         *)
(* Every operation of the clients is a blocking HTTP call.  It is modelled *)
(* as two actions: the part of the handler up to and including the         *)
(* transmission of the request, and the part that runs once the server has *)
(* answered (raise_for_status, json(), the prints, the return).            *)
(* close() is one action: it closes the instance's httpx client, and a     *)
(* later call on that instance raises at its post or get.                  *)
(*                                                                         *)
(* Python values:                                                          *)
(*   dict            a function whose domain is the set of keys            *)
(*   Optional[T]     <<>> for None, <<x>> for the value x                   *)
(*   token strings   sequences of characters (so that [:20] is SubSeq)     *)
(*   other strings   TLA+ strings                                          *)
(***************************************************************************)
EXTENDS Integers, Sequences, FiniteSets, TLC

VARIABLES
    gnap,      \* fields of the GNAPClient instance
    rc,        \* fields of the ResourceClient instance
    op,        \* fields of the OpenPaymentsClient instance
    clock,     \* the wall clock read by datetime.now
    pc,        \* "idle", or "sent" while a call waits for the server
    call,      \* the operation in progress (or the last one) and its arguments
    wire,      \* the HTTP requests transmitted by that call, in order
    log,       \* the lines printed by that call, in order
    answer,    \* the response that call received from the server, None while there is none
    outcome,   \* what that call handed to its caller: a return or a raise
    handle     \* whether the caller holds an interaction handle from an earlier grant request

vars == <<gnap, rc, op, clock, pc, call, wire, log, answer, outcome, handle>>

----------------------------------------------------------------------------
(* Bounds of the model *)

MaxClock == 1

----------------------------------------------------------------------------
(* Python values *)

None == <<>>
Some(x) == <<x>>
EmptyDict == [k \in {} |-> 0]

\* `k in d` for a dict d
In(k, d) == k \in DOMAIN d

\* truthiness of an Optional[str] / Optional[dict] / list: None, "" , {} and [] are falsy
TruthyStr(o) == o # None /\ o[1] # ""
TruthyDict(o) == o # None /\ DOMAIN o[1] # {}

\* s[:n] on a sequence of characters
Prefix(s, n) == SubSeq(s, 1, IF Len(s) < n THEN Len(s) ELSE n)

TokenLogLen == 20

\* json.dumps / response.json(): the text of a JSON document and its parse
JsonDumps(d) == <<"json", d>>

----------------------------------------------------------------------------
(* The inputs the operations are called with, and what the servers answer *)

\* AccessRight(type, actions, identifier=None, limits=None)
AccessRight(type, actions, identifier, limits) ==
    [type |-> type, actions |-> actions, identifier |-> identifier, limits |-> limits]

RightQuote == AccessRight("quote", <<"create", "read">>, None, None)
RightIncoming == AccessRight("incoming-payment", <<"create", "read">>,
                             Some("https://rs/ip/1"), None)
RightOutgoing == AccessRight("outgoing-payment", <<"create", "read">>, None,
                             Some([debitAmount |-> "500"]))
RightBlank == AccessRight("quote", <<>>, Some(""), Some(EmptyDict))

AccessRightLists ==
    { <<>>, <<RightQuote>>, <<RightIncoming, RightOutgoing>>,
      <<RightOutgoing, RightIncoming>>, <<RightBlank>> }

ClientIds == {"music-site-client"}
RedirectUris == {"https://music-site.com/payment/callback", "https://app/cb"}

\* secrets.token_urlsafe(nbytes): the URL-safe base64 text of nbytes bytes drawn
\* from the operating system's random source
TokenUrlsafe(nbytes, drawn) == [encoding |-> "urlsafe-base64", nbytes |-> nbytes, bytes |-> drawn]

\* What the random source can hand out on one draw
RandomDraws == {"draw-a", "draw-b"}

\* A nonce made of 16 random bytes
GenerateNonceShort(drawn) == TokenUrlsafe(16, drawn)

\* GNAPClient._generate_nonce()
GenerateNonce(drawn) == TokenUrlsafe(32, drawn)

Nonces == {GenerateNonce(drawn) : drawn \in RandomDraws}
ContinueUris == {"https://as/continue/1"}

Tok1 == <<"t", "o", "k", "1">>
TokLong == <<"a", "b", "c", "d", "e", "f", "g", "h", "i", "j", "k", "l", "m",
             "n", "o", "p", "q", "r", "s", "t", "u">>
TokEmpty == <<>>
ContinueTokens == {Tok1}
ClientTokens == {Tok1, TokLong}

WalletAddresses == {"https://ilp.rafiki.money/bob"}
Amount500 == [value |-> "500", assetCode |-> "USD", assetScale |-> 2]
Amounts == {Amount500}
OptAmounts == {None, Some(Amount500), Some(EmptyDict)}
OptExpires == {None, Some("2026-01-01T00:00:00Z"), Some("")}
OptMetadata == {None, Some([description |-> "invoice"]), Some(EmptyDict)}
PaymentUrls == {"https://rs/ip/1", "https://other/op/9"}
QuoteIds == {"https://rs/quotes/1"}

\* The access_token member of a grant response, when there is one
TokenMembers ==
    { [value |-> Tok1, manage |-> "https://as/m/1"],
      [value |-> TokLong, manage |-> "https://as/m/1", expires_in |-> 600],
      [value |-> TokEmpty, manage |-> "https://as/m/1"],
      [manage |-> "https://as/m/1"] }

\* The interact member of a grant response, when there is one
InteractMembers ==
    { [redirect |-> "https://as/interact/abc"], EmptyDict }

GrantBodies ==
    {EmptyDict}
    \cup { [access_token |-> t] : t \in TokenMembers }
    \cup { [interact |-> i] : i \in InteractMembers }
    \cup { [access_token |-> [value |-> Tok1, manage |-> "https://as/m/1"], interact |-> i] :
             i \in InteractMembers }

\* The JSON documents a Resource Server answers with
ResourceBodies ==
    { EmptyDict,
      [id |-> "https://rs/ip/1"],
      [id |-> "https://rs/ip/1", completed |-> FALSE],
      [id |-> "https://rs/ip/1", completed |-> TRUE, receivedAmount |-> Amount500],
      [id |-> "https://rs/op/1", failed |-> FALSE, sentAmount |-> Amount500],
      [id |-> "https://rs/op/1", failed |-> TRUE] }

StatusCodes == {200, 201, 301, 401, 500}

\* An httpx.Response: the status, whether the body text is a JSON document,
\* and the document (the text itself when it is not JSON)
Response(status_code, is_json, body) ==
    [status_code |-> status_code, is_json |-> is_json, body |-> body]

ResponsesOf(bodies) ==
    { Response(s, TRUE, b) : s \in StatusCodes, b \in bodies }
    \cup { Response(s, FALSE, EmptyDict) : s \in StatusCodes }

GrantResponses == ResponsesOf(GrantBodies)
ResourceResponses == ResponsesOf(ResourceBodies)

----------------------------------------------------------------------------
(* HTTP and signing primitives *)

\* The text values handed to _sign_request as body: <<>> is the empty string
TruthyText(o) == o # None /\ o[1] # <<>>

\* An outgoing HTTP request; content is None when the call passes no content
Request(method, url, headers, content) ==
    [method |-> method, url |-> url, headers |-> headers, content |-> content]

\* What a call hands to its caller
NoOutcome == [kind |-> "none"]
Return(value) == [kind |-> "return", value |-> value]
Raise(exc) == [kind |-> "raise", exc |-> exc]

\* httpx.Response.is_success
IsSuccess(response) == response.status_code >= 200 /\ response.status_code <= 299

\* A raise_for_status that lets 1xx and 3xx answers through
RaiseForStatusErrorsOnly(response) == response.status_code >= 400

\* response.raise_for_status(): TRUE when it raises httpx.HTTPStatusError
RaiseForStatus(response) == ~IsSuccess(response)

\* The httpx.HTTPStatusError raised for a response: it carries the response
HTTPStatusError(response) == [type |-> "HTTPStatusError", response |-> response]
JSONDecodeError == [type |-> "JSONDecodeError"]
KeyError(key) == [type |-> "KeyError", key |-> key]
TypeError == [type |-> "TypeError"]
ValueError == [type |-> "ValueError"]

\* The RuntimeError httpx raises when a request is handed to a closed Client
RuntimeError == [type |-> "RuntimeError"]

\* A post that sends the request again after the first attempt
TransmitWithRetry(w, request) == Append(Append(w, request), request)

\* self.client.post / self.client.get: the request goes out once
Transmit(w, request) == Append(w, request)

\* The outcome of the part of a handler that ends in self.client.post or
\* self.client.get: the exception it raises, or the request it transmits
Raised(exc) == [raised |-> TRUE, exc |-> exc]
Posted(request) == [raised |-> FALSE, request |-> request]

\* self.client.post / self.client.get of the instance self: httpx refuses to
\* send on a client that close() has closed
ClientSend(self, request) ==
    IF self.client = "closed" THEN Raised(RuntimeError) ELSE Posted(request)

\* A handler reaches its self.client.post / self.client.get: the call ends in
\* the exception, or blocks with the request on the wire
Send(self, request) ==
    LET posting == ClientSend(self, request)
    IN  IF posting.raised
        THEN /\ wire' = <<>>
             /\ pc' = "idle"
             /\ outcome' = Raise(posting.exc)
        ELSE /\ wire' = Transmit(<<>>, posting.request)
             /\ pc' = "sent"
             /\ outcome' = NoOutcome

\* close(): self.client.close()
Close(self) == [self EXCEPT !.client = "closed"]

\* A printed line
Line(label, arg) == [label |-> label, arg |-> arg]

\* datetime.now(timezone.utc).isoformat()
IsoFormat(t) == <<"utc", t>>

\* hashlib.sha256(body.encode()).digest() and base64.b64encode(..).decode()
Sha256(text) == <<"sha256", text>>
B64(bytes) == <<"b64", bytes>>

\* private_key.sign(message): a key that is not an Ed25519 key cannot sign this way
CanSign(private_key) == private_key.kind = "ed25519"
Sign(private_key, message) == <<"sig", private_key.id, message>>

\* A content_to_sign that leaves the body digest out
ContentToSignWithoutBody(method, url, timestamp, body) == <<method, url, timestamp>>

\* The lines of content_to_sign
ContentToSign(method, url, timestamp, body) ==
    IF TruthyText(body)
    THEN <<method, url, timestamp, B64(Sha256(body[1]))>>
    ELSE <<method, url, timestamp>>

\* The text of a header value is a sequence of pieces: [c |-> s] is the literal
\* text s (one character, or a run of characters without a double quote),
\* [blob |-> b] an opaque base64 text
Quote == [c |-> "\""]
Text(s) == <<[c |-> s]>>
Blob(b) == <<[blob |-> b]>>

\* f'keyId="{key_id}",algorithm="ed25519",signature="{signature_b64}"'
SignatureHeader(key_id, signature_b64) ==
    Text("keyId=") \o <<Quote>> \o key_id \o <<Quote>>
    \o Text(",algorithm=") \o <<Quote>> \o Text("ed25519") \o <<Quote>>
    \o Text(",signature=") \o <<Quote>> \o Blob(signature_b64) \o <<Quote>>

\* f'sig1=();created={timestamp}'
SignatureInputHeader(timestamp) == <<"sig1=();created=", timestamp>>

\* A _sign_request that forgets the Signature-Input header
GnapSignRequestWithoutInput(self, method, url, body, now) ==
    LET timestamp == IsoFormat(now)
        content_to_sign == ContentToSign(method, url, timestamp, body)
    IN  IF ~CanSign(self.private_key)
        THEN [raised |-> TRUE, exc |-> TypeError]
        ELSE [raised |-> FALSE,
              headers |->
                  ("Content-Type" :> <<"application/json">>)
                  @@ ("Signature" :> SignatureHeader(self.client_key_id,
                                         B64(Sign(self.private_key, content_to_sign))))]

\* GNAPClient._sign_request(method, url, body) at clock reading now
GnapSignRequest(self, method, url, body, now) ==
    LET timestamp == IsoFormat(now)
        content_to_sign == ContentToSign(method, url, timestamp, body)
    IN  IF ~CanSign(self.private_key)
        THEN [raised |-> TRUE, exc |-> TypeError]
        ELSE [raised |-> FALSE,
              headers |->
                  ("Content-Type" :> <<"application/json">>)
                  @@ ("Signature" :> SignatureHeader(self.client_key_id,
                                         B64(Sign(self.private_key, content_to_sign))))
                  @@ ("Signature-Input" :> SignatureInputHeader(timestamp))]

\* headers = {"Authorization": f"GNAP {token}", <name>: "application/json"}
BearerHeaders(token, name) ==
    ("Authorization" :> <<"GNAP", token>>) @@ (name :> <<"application/json">>)

----------------------------------------------------------------------------
(* GNAPClient *)

\* One entry of grant_request["access_token"]
AccessEntry(right) ==
    [type |-> right.type, actions |-> right.actions]
    @@ (IF TruthyStr(right.identifier) THEN [identifier |-> right.identifier[1]] ELSE EmptyDict)
    @@ (IF TruthyDict(right.limits) THEN [limits |-> right.limits[1]] ELSE EmptyDict)

AccessEntries(access_rights) ==
    [i \in 1..Len(access_rights) |-> AccessEntry(access_rights[i])]

\* grant_request of request_grant_non_interactive
NonInteractiveGrantRequest(access_rights, client_id) ==
    [access_token |-> AccessEntries(access_rights), client |-> client_id]

\* An interactive grant request whose finish.uri is filled from the wrong argument
InteractiveGrantRequestWrongUri(access_rights, client_id, redirect_uri, nonce) ==
    [access_token |-> AccessEntries(access_rights),
     client |-> client_id,
     interact |-> [start |-> <<"redirect">>,
                   finish |-> [method |-> "redirect", uri |-> client_id, nonce |-> nonce]]]

\* grant_request of request_grant_interactive
InteractiveGrantRequest(access_rights, client_id, redirect_uri, nonce) ==
    [access_token |-> AccessEntries(access_rights),
     client |-> client_id,
     interact |-> [start |-> <<"redirect">>,
                   finish |-> [method |-> "redirect", uri |-> redirect_uri, nonce |-> nonce]]]

\* The lines both grant requests print before signing
GrantRequestLines(label, access_rights) ==
    <<Line(label, <<>>),
      Line("Recursos", [i \in 1..Len(access_rights) |-> access_rights[i].type])>>

\* A grant request posted without a signature when the key cannot sign
PostGrantRequestUnsignedOnFailure(grant_request, printed) ==
    LET url == gnap.auth_server_url \o "/"
        body == JsonDumps(grant_request)
        signed == GnapSignRequest(gnap, "POST", url, Some(body), clock)
    IN  /\ log' = printed
        /\ answer' = None
        /\ Send(gnap, Request("POST", url,
                           IF signed.raised THEN ("Content-Type" :> <<"application/json">>)
                           ELSE signed.headers, Some(body)))

\* A grant request posted with headers signed at an earlier clock reading
PostGrantRequestStaleHeaders(grant_request, printed) ==
    LET url == gnap.auth_server_url \o "/"
        body == JsonDumps(grant_request)
        signed == GnapSignRequest(gnap, "POST", url, Some(body), 0)
    IN  /\ log' = printed
        /\ answer' = None
        /\ IF signed.raised
           THEN /\ wire' = <<>>
                /\ pc' = "idle"
                /\ outcome' = Raise(signed.exc)
           ELSE Send(gnap, Request("POST", url, signed.headers, Some(body)))

\* Sign and post a grant request: the part of both request_grant_* handlers from
\* json.dumps to self.client.post
PostGrantRequest(grant_request, printed) ==
    LET url == gnap.auth_server_url \o "/"
        body == JsonDumps(grant_request)
        signed == GnapSignRequest(gnap, "POST", url, Some(body), clock)
    IN  /\ log' = printed
        /\ answer' = None
        /\ IF signed.raised
           THEN /\ wire' = <<>>
                /\ pc' = "idle"
                /\ outcome' = Raise(signed.exc)
           ELSE Send(gnap, Request("POST", url, signed.headers, Some(body)))

RequestGrantNonInteractive(access_rights, client_id) ==
    /\ pc = "idle"
    /\ call' = [op |-> "request_grant_non_interactive",
                access_rights |-> access_rights, client_id |-> client_id]
    /\ PostGrantRequest(NonInteractiveGrantRequest(access_rights, client_id),
                        GrantRequestLines("Solicitando concesion no interactiva", access_rights))
    /\ UNCHANGED <<gnap, rc, op, clock, handle>>

RequestGrantInteractive(access_rights, client_id, redirect_uri, nonce) ==
    /\ pc = "idle"
    /\ call' = [op |-> "request_grant_interactive",
                access_rights |-> access_rights, client_id |-> client_id,
                redirect_uri |-> redirect_uri]
    /\ PostGrantRequest(InteractiveGrantRequest(access_rights, client_id, redirect_uri, nonce),
                        GrantRequestLines("Solicitando concesion INTERACTIVA", access_rights)
                        \o <<Line("Requiere consentimiento del usuario", <<>>)>>)
    /\ UNCHANGED <<gnap, rc, op, clock, handle>>

\* What a handler does with the answer: the outcome and the lines it prints
Finish(o, printed) == [outcome |-> o, printed |-> printed]

\* The print of the token in request_grant_non_interactive and continue_grant
TokenLine(access_token) == Line("Token", Prefix(access_token.value, TokenLogLen))

\* request_grant_non_interactive from raise_for_status to the return
NonInteractiveFinish(response) ==
    IF RaiseForStatus(response) THEN Finish(Raise(HTTPStatusError(response)), <<>>)
    ELSE IF ~response.is_json THEN Finish(Raise(JSONDecodeError), <<>>)
    ELSE LET grant_response == response.body IN
         IF In("access_token", grant_response)
         THEN LET access_token == grant_response.access_token IN
              IF ~In("value", access_token)
              THEN Finish(Raise(KeyError("value")), <<Line("Concesion otorgada", <<>>)>>)
              ELSE Finish(Return(grant_response),
                          <<Line("Concesion otorgada", <<>>), TokenLine(access_token)>>
                          \o (IF In("expires_in", access_token)
                              THEN <<Line("Expira en", <<access_token.expires_in>>)>>
                              ELSE <<>>))
         ELSE Finish(Return(grant_response), <<>>)

\* request_grant_interactive from raise_for_status to the return
InteractiveFinish(response) ==
    IF RaiseForStatus(response) THEN Finish(Raise(HTTPStatusError(response)), <<>>)
    ELSE IF ~response.is_json THEN Finish(Raise(JSONDecodeError), <<>>)
    ELSE LET grant_response == response.body IN
         IF In("interact", grant_response)
         THEN IF ~In("redirect", grant_response.interact)
              THEN Finish(Raise(KeyError("redirect")),
                          <<Line("Concesion pendiente de autorizacion", <<>>)>>)
              ELSE Finish(Return(grant_response),
                          <<Line("Concesion pendiente de autorizacion", <<>>),
                            Line("URL de interaccion", <<grant_response.interact.redirect>>),
                            Line("Usuario debe aprobar en el IdP", <<>>)>>)
         ELSE Finish(Return(grant_response), <<>>)

\* continue_grant from raise_for_status to the return
ContinueFinish(response) ==
    IF RaiseForStatus(response) THEN Finish(Raise(HTTPStatusError(response)), <<>>)
    ELSE IF ~response.is_json THEN Finish(Raise(JSONDecodeError), <<>>)
    ELSE LET grant_response == response.body IN
         IF In("access_token", grant_response)
         THEN IF ~In("value", grant_response.access_token)
              THEN Finish(Raise(KeyError("value")), <<Line("Autorizacion completada", <<>>)>>)
              ELSE Finish(Return(grant_response),
                          <<Line("Autorizacion completada", <<>>),
                            TokenLine(grant_response.access_token)>>)
         ELSE Finish(Return(grant_response), <<>>)

\* The caller keeps the interaction handle of an interactive grant request
\* that returned one
HoldsHandle(o) == o.kind = "return" /\ In("interact", o.value)

\* An answer whose granted token is kept on the ResourceClient instance
AnswerKeepingToken(response, finish) ==
    /\ pc' = "idle"
    /\ answer' = Some(response)
    /\ outcome' = finish.outcome
    /\ log' = log \o finish.printed
    /\ rc' = IF /\ finish.outcome.kind = "return"
                /\ In("access_token", finish.outcome.value)
                /\ In("value", finish.outcome.value.access_token)
             THEN [rc EXCEPT !.access_token = finish.outcome.value.access_token.value]
             ELSE rc
    /\ UNCHANGED <<gnap, op, clock, call, wire>>

\* The server's answer reaches the handler that waits for it
Answer(response, finish) ==
    /\ pc' = "idle"
    /\ answer' = Some(response)
    /\ outcome' = finish.outcome
    /\ log' = log \o finish.printed
    /\ UNCHANGED <<gnap, rc, op, clock, call, wire>>

RequestGrantNonInteractiveAnswer(response) ==
    /\ pc = "sent"
    /\ call.op = "request_grant_non_interactive"
    /\ Answer(response, NonInteractiveFinish(response))
    /\ UNCHANGED handle

RequestGrantInteractiveAnswer(response) ==
    /\ pc = "sent"
    /\ call.op = "request_grant_interactive"
    /\ Answer(response, InteractiveFinish(response))
    /\ handle' = (handle \/ HoldsHandle(InteractiveFinish(response).outcome))

ContinueGrant(continue_uri, continue_token) ==
    /\ pc = "idle"
    /\ call' = [op |-> "continue_grant",
                continue_uri |-> continue_uri, continue_token |-> continue_token]
    /\ log' = <<Line("Continuando concesion", <<>>)>>
    /\ Send(gnap, Request("POST", continue_uri,
                          BearerHeaders(continue_token, "Content-Type"), None))
    /\ answer' = None
    /\ UNCHANGED <<gnap, rc, op, clock, handle>>

ContinueGrantAnswer(response) ==
    /\ pc = "sent"
    /\ call.op = "continue_grant"
    /\ Answer(response, ContinueFinish(response))
    /\ UNCHANGED handle

\* self.client.post raises instead of returning a response (timeout, connection error)
TransportError == [type |-> "TransportError"]

----------------------------------------------------------------------------
(* ResourceClient *)

\* data.get(key) and data.get(key, default)
Get(data, key) == IF In(key, data) THEN Some(data[key]) ELSE None
GetOr(data, key, default) == IF In(key, data) THEN data[key] ELSE default

\* payload of create_incoming_payment
IncomingPaymentPayload(wallet_address, incoming_amount, expires_at, metadata) ==
    [walletAddress |-> wallet_address, incomingAmount |-> incoming_amount]
    @@ (IF TruthyStr(expires_at) THEN [expiresAt |-> expires_at[1]] ELSE EmptyDict)
    @@ (IF TruthyDict(metadata) THEN [metadata |-> metadata[1]] ELSE EmptyDict)

\* payload of create_outgoing_payment
OutgoingPaymentPayload(wallet_address, quote_id, metadata) ==
    [walletAddress |-> wallet_address, quoteId |-> quote_id]
    @@ (IF TruthyDict(metadata) THEN [metadata |-> metadata[1]] ELSE EmptyDict)

\* A ResourceClient handler up to its self.client.post / self.client.get
ResourceSend(method, url, header_name, content, printed) ==
    /\ pc = "idle"
    /\ log' = printed
    /\ Send(rc, Request(method, url, BearerHeaders(rc.access_token, header_name), content))
    /\ answer' = None
    /\ UNCHANGED <<gnap, rc, op, clock, handle>>

CreateIncomingPayment(wallet_address, incoming_amount, expires_at, metadata) ==
    /\ call' = [op |-> "create_incoming_payment", wallet_address |-> wallet_address,
                incoming_amount |-> incoming_amount, expires_at |-> expires_at,
                metadata |-> metadata]
    /\ ResourceSend("POST", rc.resource_server_url \o "/incoming-payments", "Content-Type",
                    Some(JsonDumps(IncomingPaymentPayload(wallet_address, incoming_amount,
                                                          expires_at, metadata))),
                    <<Line("Creando pago entrante", <<>>),
                      Line("Receptor", <<wallet_address>>),
                      Line("Monto", <<incoming_amount>>)>>)

\* A get_incoming_payment that rebuilds the URL from the Resource Server's address
GetIncomingPaymentRebuilt(payment_id) ==
    /\ call' = [op |-> "get_incoming_payment", payment_id |-> payment_id]
    /\ ResourceSend("GET", rc.resource_server_url \o "/incoming-payments", "Accept", None,
                    <<Line("Consultando pago entrante", <<payment_id>>)>>)

GetIncomingPayment(payment_id) ==
    /\ call' = [op |-> "get_incoming_payment", payment_id |-> payment_id]
    /\ ResourceSend("GET", payment_id, "Accept", None,
                    <<Line("Consultando pago entrante", <<payment_id>>)>>)

CreateOutgoingPayment(wallet_address, quote_id, metadata) ==
    /\ call' = [op |-> "create_outgoing_payment", wallet_address |-> wallet_address,
                quote_id |-> quote_id, metadata |-> metadata]
    /\ ResourceSend("POST", rc.resource_server_url \o "/outgoing-payments", "Content-Type",
                    Some(JsonDumps(OutgoingPaymentPayload(wallet_address, quote_id, metadata))),
                    <<Line("Creando pago saliente", <<>>),
                      Line("Remitente", <<wallet_address>>),
                      Line("Quote ID", <<quote_id>>)>>)

GetOutgoingPayment(payment_id) ==
    /\ call' = [op |-> "get_outgoing_payment", payment_id |-> payment_id]
    /\ ResourceSend("GET", payment_id, "Accept", None,
                    <<Line("Consultando pago saliente", <<payment_id>>)>>)

\* IncomingPayment(...) as create_incoming_payment builds it
IncomingPayment(c, data) ==
    [wallet_address |-> c.wallet_address,
     incoming_amount |-> c.incoming_amount,
     expires_at |-> c.expires_at,
     metadata |-> c.metadata,
     id |-> Get(data, "id"),
     completed |-> GetOr(data, "completed", FALSE),
     received_amount |-> Get(data, "receivedAmount")]

\* OutgoingPayment(...) as create_outgoing_payment builds it
OutgoingPayment(c, data) ==
    [wallet_address |-> c.wallet_address,
     quote_id |-> c.quote_id,
     metadata |-> c.metadata,
     id |-> Get(data, "id"),
     sent_amount |-> Get(data, "sentAmount"),
     failed |-> GetOr(data, "failed", FALSE)]

CreateIncomingPaymentFinish(c, response) ==
    IF RaiseForStatus(response) THEN Finish(Raise(HTTPStatusError(response)), <<>>)
    ELSE IF ~response.is_json THEN Finish(Raise(JSONDecodeError), <<>>)
    ELSE Finish(Return(IncomingPayment(c, response.body)),
                <<Line("Pago entrante creado", Get(response.body, "id"))>>)

GetIncomingPaymentFinish(response) ==
    IF RaiseForStatus(response) THEN Finish(Raise(HTTPStatusError(response)), <<>>)
    ELSE IF ~response.is_json THEN Finish(Raise(JSONDecodeError), <<>>)
    ELSE Finish(Return(response.body),
                <<Line("Estado", <<IF GetOr(response.body, "completed", FALSE)
                                   THEN "Completado" ELSE "Pendiente">>)>>)

CreateOutgoingPaymentFinish(c, response) ==
    IF RaiseForStatus(response) THEN Finish(Raise(HTTPStatusError(response)), <<>>)
    ELSE IF ~response.is_json THEN Finish(Raise(JSONDecodeError), <<>>)
    ELSE Finish(Return(OutgoingPayment(c, response.body)),
                <<Line("Pago saliente creado", Get(response.body, "id")),
                  Line("Monto enviado", Get(response.body, "sentAmount"))>>)

GetOutgoingPaymentFinish(response) ==
    IF RaiseForStatus(response) THEN Finish(Raise(HTTPStatusError(response)), <<>>)
    ELSE IF ~response.is_json THEN Finish(Raise(JSONDecodeError), <<>>)
    ELSE Finish(Return(response.body),
                <<Line(IF GetOr(response.body, "failed", FALSE)
                       THEN "Pago fallo" ELSE "Pago procesado exitosamente", <<>>)>>)

CreateIncomingPaymentAnswer(response) ==
    /\ pc = "sent"
    /\ call.op = "create_incoming_payment"
    /\ Answer(response, CreateIncomingPaymentFinish(call, response))
    /\ UNCHANGED handle

GetIncomingPaymentAnswer(response) ==
    /\ pc = "sent"
    /\ call.op = "get_incoming_payment"
    /\ Answer(response, GetIncomingPaymentFinish(response))
    /\ UNCHANGED handle

CreateOutgoingPaymentAnswer(response) ==
    /\ pc = "sent"
    /\ call.op = "create_outgoing_payment"
    /\ Answer(response, CreateOutgoingPaymentFinish(call, response))
    /\ UNCHANGED handle

GetOutgoingPaymentAnswer(response) ==
    /\ pc = "sent"
    /\ call.op = "get_outgoing_payment"
    /\ Answer(response, GetOutgoingPaymentFinish(response))
    /\ UNCHANGED handle

----------------------------------------------------------------------------
(* OpenPaymentsClient *)

\* OpenPaymentsClient._sign_request(method, url, body, headers) at clock
\* reading now: headers is None or the caller's dict, in which the three
\* headers are set (replacing entries of the same name) and which is returned
OpSignRequest(self, method, url, body, headers, now) ==
    LET timestamp == IsoFormat(now)
        content_to_sign == ContentToSign(method, url, timestamp, body)
        given == IF headers = None THEN EmptyDict ELSE headers[1]
    IN  IF ~CanSign(self.private_key)
        THEN [raised |-> TRUE, exc |-> TypeError]
        ELSE [raised |-> FALSE,
              headers |->
                  ("Signature" :> SignatureHeader(self.key_id,
                                      B64(Sign(self.private_key, content_to_sign))))
                  @@ ("Signature-Input" :> SignatureInputHeader(timestamp))
                  @@ ("Content-Type" :> <<"application/json">>)
                  @@ given]

\* A quote payload that carries both amounts when both are given
QuotePayloadWithBothAmounts(receiver_wallet, send_amount, receive_amount) ==
    IF TruthyDict(send_amount) /\ TruthyDict(receive_amount)
    THEN Some([walletAddress |-> receiver_wallet, method |-> "ilp",
               sendAmount |-> send_amount[1], receiveAmount |-> receive_amount[1]])
    ELSE IF TruthyDict(send_amount)
    THEN Some([walletAddress |-> receiver_wallet, method |-> "ilp",
               sendAmount |-> send_amount[1]])
    ELSE IF TruthyDict(receive_amount)
    THEN Some([walletAddress |-> receiver_wallet, method |-> "ilp",
               receiveAmount |-> receive_amount[1]])
    ELSE None

\* payload of create_quote; None when neither amount is given (ValueError)
QuotePayload(receiver_wallet, send_amount, receive_amount) ==
    IF TruthyDict(send_amount)
    THEN Some([walletAddress |-> receiver_wallet, method |-> "ilp",
               sendAmount |-> send_amount[1]])
    ELSE IF TruthyDict(receive_amount)
    THEN Some([walletAddress |-> receiver_wallet, method |-> "ilp",
               receiveAmount |-> receive_amount[1]])
    ELSE None

CreateQuote(receiver_wallet, send_amount, receive_amount) ==
    LET url == op.base_url \o "/quotes"
        payload == QuotePayload(receiver_wallet, send_amount, receive_amount)
        body == JsonDumps(payload[1])
        signed == OpSignRequest(op, "POST", url, Some(body), None, clock)
    IN  /\ pc = "idle"
        /\ call' = [op |-> "create_quote", receiver_wallet |-> receiver_wallet,
                    send_amount |-> send_amount, receive_amount |-> receive_amount]
        /\ answer' = None
        /\ IF payload = None
           THEN /\ wire' = <<>>
                /\ log' = <<>>
                /\ pc' = "idle"
                /\ outcome' = Raise(ValueError)
           ELSE IF signed.raised
           THEN /\ wire' = <<>>
                /\ log' = <<>>
                /\ pc' = "idle"
                /\ outcome' = Raise(signed.exc)
           ELSE /\ log' = <<Line("Creando cotizacion para", <<receiver_wallet>>)>>
                /\ Send(op, Request("POST", url, signed.headers, Some(body)))
        /\ UNCHANGED <<gnap, rc, op, clock, handle>>

CreateQuoteFinish(response) ==
    IF RaiseForStatus(response) THEN Finish(Raise(HTTPStatusError(response)), <<>>)
    ELSE IF ~response.is_json THEN Finish(Raise(JSONDecodeError), <<>>)
    ELSE Finish(Return(response.body),
                <<Line("Quote creado", Get(response.body, "id")),
                  Line("Monto a enviar", Get(response.body, "sendAmount")),
                  Line("Monto a recibir", Get(response.body, "receiveAmount"))>>)

CreateQuoteAnswer(response) ==
    /\ pc = "sent"
    /\ call.op = "create_quote"
    /\ Answer(response, CreateQuoteFinish(response))
    /\ UNCHANGED handle

\* OpenPaymentsClient.create_outgoing_payment up to self.client.post
OpCreateOutgoingPayment(quote_id, wallet_address, metadata) ==
    LET url == op.base_url \o "/outgoing-payments"
        body == JsonDumps(OutgoingPaymentPayload(wallet_address, quote_id, metadata))
        signed == OpSignRequest(op, "POST", url, Some(body), None, clock)
    IN  /\ pc = "idle"
        /\ call' = [op |-> "op_create_outgoing_payment", quote_id |-> quote_id,
                    wallet_address |-> wallet_address, metadata |-> metadata]
        /\ answer' = None
        /\ IF signed.raised
           THEN /\ wire' = <<>>
                /\ log' = <<>>
                /\ pc' = "idle"
                /\ outcome' = Raise(signed.exc)
           ELSE /\ log' = <<Line("Creando pago saliente", <<>>)>>
                /\ Send(op, Request("POST", url, signed.headers, Some(body)))
        /\ UNCHANGED <<gnap, rc, op, clock, handle>>

OpCreateOutgoingPaymentFinish(response) ==
    IF RaiseForStatus(response) THEN Finish(Raise(HTTPStatusError(response)), <<>>)
    ELSE IF ~response.is_json THEN Finish(Raise(JSONDecodeError), <<>>)
    ELSE Finish(Return(response.body),
                <<Line("Pago creado", Get(response.body, "id"))>>)

OpCreateOutgoingPaymentAnswer(response) ==
    /\ pc = "sent"
    /\ call.op = "op_create_outgoing_payment"
    /\ Answer(response, OpCreateOutgoingPaymentFinish(response))
    /\ UNCHANGED handle

\* OpenPaymentsClient.get_wallet_info(wallet_address=None) up to
\* self.client.get: the request is not signed
GetWalletInfo(wallet_address) ==
    LET url == IF wallet_address = None THEN op.wallet_address ELSE wallet_address[1]
    IN  /\ pc = "idle"
        /\ call' = [op |-> "get_wallet_info", wallet_address |-> wallet_address]
        /\ log' = <<Line("Obteniendo informacion de", <<url>>)>>
        /\ Send(op, Request("GET", url, ("Accept" :> <<"application/json">>), None))
        /\ answer' = None
        /\ UNCHANGED <<gnap, rc, op, clock, handle>>

GetWalletInfoFinish(response) ==
    IF RaiseForStatus(response) THEN Finish(Raise(HTTPStatusError(response)), <<>>)
    ELSE IF ~response.is_json THEN Finish(Raise(JSONDecodeError), <<>>)
    ELSE Finish(Return(response.body),
                <<Line("Wallet encontrada", Get(response.body, "id"))>>)

GetWalletInfoAnswer(response) ==
    /\ pc = "sent"
    /\ call.op = "get_wallet_info"
    /\ Answer(response, GetWalletInfoFinish(response))
    /\ UNCHANGED handle

----------------------------------------------------------------------------
(* close() of the three clients: the call returns None; it sends and prints
   nothing *)

\* GNAPClient.close
GnapClose ==
    /\ pc = "idle"
    /\ call' = [op |-> "GNAPClient.close"]
    /\ gnap' = Close(gnap)
    /\ wire' = <<>>
    /\ log' = <<>>
    /\ answer' = None
    /\ outcome' = Return(None)
    /\ UNCHANGED <<rc, op, clock, pc, handle>>

\* ResourceClient.close
RcClose ==
    /\ pc = "idle"
    /\ call' = [op |-> "ResourceClient.close"]
    /\ rc' = Close(rc)
    /\ wire' = <<>>
    /\ log' = <<>>
    /\ answer' = None
    /\ outcome' = Return(None)
    /\ UNCHANGED <<gnap, op, clock, pc, handle>>

\* OpenPaymentsClient.close
OpClose ==
    /\ pc = "idle"
    /\ call' = [op |-> "OpenPaymentsClient.close"]
    /\ op' = Close(op)
    /\ wire' = <<>>
    /\ log' = <<>>
    /\ answer' = None
    /\ outcome' = Return(None)
    /\ UNCHANGED <<gnap, rc, clock, pc, handle>>

----------------------------------------------------------------------------
(* The environment *)

\* The request in flight gets no response: the post or get raises
TransportFailure ==
    /\ pc = "sent"
    /\ pc' = "idle"
    /\ outcome' = Raise(TransportError)
    /\ UNCHANGED <<gnap, rc, op, clock, call, wire, log, answer, handle>>

\* Time passes
Tick ==
    /\ clock < MaxClock
    /\ clock' = clock + 1
    /\ UNCHANGED <<gnap, rc, op, pc, call, wire, log, answer, outcome, handle>>

----------------------------------------------------------------------------
(* The specification *)

KeyKinds == {"ed25519", "rsa"}

\* The key ids a client is configured with: key-1 and a"b
KeyIdPlain == Text("key-1")
KeyIds == {KeyIdPlain, <<[c |-> "a"], Quote, [c |-> "b"]>>}

\* GNAPClient(auth_server_url, client_key_id, private_key_path)
GNAPClient(auth_server_url, client_key_id, private_key) ==
    [auth_server_url |-> auth_server_url, client_key_id |-> client_key_id,
     private_key |-> private_key, client |-> "open"]

\* ResourceClient(resource_server_url, access_token)
ResourceClient(resource_server_url, access_token) ==
    [resource_server_url |-> resource_server_url, access_token |-> access_token,
     client |-> "open"]

\* urlparse(url).scheme and .netloc: the scheme is the text before the first
\* colon when it starts with a letter and holds only letters, digits, "+",
\* "-" and ".", lowercased; the netloc is the text between a "//" that
\* follows it and the next "/", "?" or "#"
UrlParse(url) ==
    LET upper == <<"A", "B", "C", "D", "E", "F", "G", "H", "I", "J", "K", "L", "M",
                   "N", "O", "P", "Q", "R", "S", "T", "U", "V", "W", "X", "Y", "Z">>
        lower == <<"a", "b", "c", "d", "e", "f", "g", "h", "i", "j", "k", "l", "m",
                   "n", "o", "p", "q", "r", "s", "t", "u", "v", "w", "x", "y", "z">>
        letters == {upper[i] : i \in 1..26} \cup {lower[i] : i \in 1..26}
        scheme_chars == letters \cup {"0", "1", "2", "3", "4", "5", "6", "7", "8", "9",
                                      "+", "-", "."}
        char(i) == SubSeq(url, i, i)
        first(chars, from) ==
            LET found == {i \in from..Len(url) : char(i) \in chars}
            IN  IF found = {} THEN Len(url) + 1
                ELSE CHOOSE i \in found : \A j \in found : i <= j
        low(c) == LET at == {i \in 1..26 : upper[i] = c}
                  IN  IF at = {} THEN c ELSE lower[CHOOSE i \in at : TRUE]
        lowered[n \in 0..Len(url)] == IF n = 0 THEN "" ELSE lowered[n - 1] \o low(char(n))
        colon == first({":"}, 1)
        has_scheme == /\ 1 < colon
                      /\ colon <= Len(url)
                      /\ char(1) \in letters
                      /\ \A i \in 1..(colon - 1) : char(i) \in scheme_chars
        rest == IF has_scheme THEN colon + 1 ELSE 1
        has_netloc == rest + 1 <= Len(url) /\ SubSeq(url, rest, rest + 1) = "//"
    IN  [scheme |-> IF has_scheme THEN lowered[colon - 1] ELSE "",
         netloc |-> IF has_netloc
                    THEN SubSeq(url, rest + 2, first({"/", "?", "#"}, rest + 2) - 1)
                    ELSE ""]

\* OpenPaymentsClient(wallet_address, private_key_path, key_id, base_url=None)
OpenPaymentsClient(wallet_address, private_key, key_id, base_url) ==
    [wallet_address |-> wallet_address, key_id |-> key_id, private_key |-> private_key,
     client |-> "open",
     base_url |-> IF base_url = None
                  THEN UrlParse(wallet_address).scheme \o "://"
                       \o UrlParse(wallet_address).netloc
                  ELSE base_url[1]]

Init ==
    /\ \E kind \in KeyKinds :
          /\ gnap = GNAPClient("https://auth.rafiki.money", KeyIdPlain,
                               [kind |-> kind, id |-> "private.key"])
          /\ op = OpenPaymentsClient("https://ilp.rafiki.money/alice",
                                     [kind |-> kind, id |-> "private.key"], KeyIdPlain,
                                     None)
    /\ \E token \in ClientTokens :
          rc = ResourceClient("https://backend.rafiki.money", token)
    /\ clock = 0
    /\ pc = "idle"
    /\ call = [op |-> "none"]
    /\ wire = <<>>
    /\ log = <<>>
    /\ answer = None
    /\ outcome = NoOutcome
    /\ handle = FALSE

Next ==
    \/ \E access_rights \in AccessRightLists, client_id \in ClientIds :
          RequestGrantNonInteractive(access_rights, client_id)
    \/ \E response \in GrantResponses : RequestGrantNonInteractiveAnswer(response)
    \/ \E access_rights \in AccessRightLists, client_id \in ClientIds,
          redirect_uri \in RedirectUris, nonce \in Nonces :
          RequestGrantInteractive(access_rights, client_id, redirect_uri, nonce)
    \/ \E response \in GrantResponses : RequestGrantInteractiveAnswer(response)
    \/ \E continue_uri \in ContinueUris, continue_token \in ContinueTokens :
          ContinueGrant(continue_uri, continue_token)
    \/ \E response \in GrantResponses : ContinueGrantAnswer(response)
    \/ \E wallet_address \in WalletAddresses, incoming_amount \in Amounts,
          expires_at \in OptExpires, metadata \in OptMetadata :
          CreateIncomingPayment(wallet_address, incoming_amount, expires_at, metadata)
    \/ \E response \in ResourceResponses : CreateIncomingPaymentAnswer(response)
    \/ \E payment_id \in PaymentUrls : GetIncomingPayment(payment_id)
    \/ \E response \in ResourceResponses : GetIncomingPaymentAnswer(response)
    \/ \E wallet_address \in WalletAddresses, quote_id \in QuoteIds, metadata \in OptMetadata :
          CreateOutgoingPayment(wallet_address, quote_id, metadata)
    \/ \E response \in ResourceResponses : CreateOutgoingPaymentAnswer(response)
    \/ \E payment_id \in PaymentUrls : GetOutgoingPayment(payment_id)
    \/ \E response \in ResourceResponses : GetOutgoingPaymentAnswer(response)
    \/ \E receiver_wallet \in WalletAddresses, send_amount \in OptAmounts,
          receive_amount \in OptAmounts :
          CreateQuote(receiver_wallet, send_amount, receive_amount)
    \/ \E response \in ResourceResponses : CreateQuoteAnswer(response)
    \/ \E quote_id \in QuoteIds, wallet_address \in WalletAddresses, metadata \in OptMetadata :
          OpCreateOutgoingPayment(quote_id, wallet_address, metadata)
    \/ \E response \in ResourceResponses : OpCreateOutgoingPaymentAnswer(response)
    \/ \E wallet_address \in {None} \cup {Some(w) : w \in WalletAddresses} :
          GetWalletInfo(wallet_address)
    \/ \E response \in ResourceResponses : GetWalletInfoAnswer(response)
    \/ GnapClose
    \/ RcClose
    \/ OpClose
    \/ TransportFailure
    \/ Tick

Spec == Init /\ [][Next]_vars

----------------------------------------------------------------------------
(* The signing operation on its own: _sign_request called with every
   combination of method, url and body *)

SignMethods == {"POST", "GET"}
SignUrls == {"https://auth.rafiki.money/", "https://ilp.rafiki.money/quotes"}
SignBodies == {None, Some(<<>>), Some(JsonDumps([a |-> "1"])), Some(JsonDumps([a |-> "2"]))}

\* The headers argument of OpenPaymentsClient._sign_request
SignHeaders ==
    { None,
      Some("X-Request-Id" :> <<"42">>),
      Some(("Signature" :> <<"old">>) @@ ("Accept" :> <<"text/plain">>)) }

\* What a call of _sign_request hands back
SignOutcome(signed) == IF signed.raised THEN Raise(signed.exc) ELSE Return(signed.headers)

\* gnap._sign_request(method, url, body)
GnapSignRequestCall(method, url, body) ==
    /\ pc = "idle"
    /\ call' = [op |-> "GNAPClient._sign_request", method |-> method, url |-> url,
                body |-> body, now |-> clock]
    /\ outcome' = SignOutcome(GnapSignRequest(gnap, method, url, body, clock))
    /\ UNCHANGED <<gnap, rc, op, clock, pc, wire, log, answer, handle>>

\* op._sign_request(method, url, body, headers)
OpSignRequestCall(method, url, body, headers) ==
    /\ pc = "idle"
    /\ call' = [op |-> "OpenPaymentsClient._sign_request", method |-> method, url |-> url,
                body |-> body, headers |-> headers, now |-> clock]
    /\ outcome' = SignOutcome(OpSignRequest(op, method, url, body, headers, clock))
    /\ UNCHANGED <<gnap, rc, op, clock, pc, wire, log, answer, handle>>

SignInit ==
    /\ \E kind \in KeyKinds, key_id \in KeyIds :
          /\ gnap = GNAPClient("https://auth.rafiki.money", key_id,
                               [kind |-> kind, id |-> "private.key"])
          /\ op = OpenPaymentsClient("https://ilp.rafiki.money/alice",
                                     [kind |-> kind, id |-> "private.key"], key_id,
                                     None)
    /\ rc = ResourceClient("https://backend.rafiki.money", Tok1)
    /\ clock = 0
    /\ pc = "idle"
    /\ call = [op |-> "none"]
    /\ wire = <<>>
    /\ log = <<>>
    /\ answer = None
    /\ outcome = NoOutcome
    /\ handle = FALSE

SignNext ==
    \/ \E method \in SignMethods, url \in SignUrls, body \in SignBodies :
          GnapSignRequestCall(method, url, body)
    \/ \E method \in SignMethods, url \in SignUrls, body \in SignBodies,
          headers \in SignHeaders :
          OpSignRequestCall(method, url, body, headers)
    \/ Tick

SignSpec == SignInit /\ [][SignNext]_vars

----------------------------------------------------------------------------
(* The end-to-end flow of examples/05_bob_alice_flow.py: main() run once.

   Under FlowSpec the variables hold the state of main():
     gnap, op   None until main constructs the client, then the instance
     rc         the ResourceClient instances constructed so far, in order
     pc         the call main is blocked in, "start" or "exited"
     call       the local variables of main
     wire       every request transmitted so far, in order
     answer     every response received so far, in order
     log        what main itself prints on its fallback and error paths
     outcome    None while main runs, its return once it has exited
     handle     whether the interactive grant response held an interaction handle *)

BobWallet == "https://ilp.rafiki.money/bob"
AliciaWallet == "https://ilp.rafiki.money/alicia"
AuthServerUrl == "https://auth.rafiki.money"
ResourceServerUrl == "https://backend.rafiki.money"

FlowIncomingRight == AccessRight("incoming-payment", <<"create", "read">>, None, None)
FlowQuoteRight == AccessRight("quote", <<"create", "read">>, None, None)
FlowOutgoingRight == AccessRight("outgoing-payment", <<"create", "read">>, None, None)

\* The literals main falls back to
SimulatedIncomingToken == <<"simulated-incoming-token">>
SimulatedOutgoingToken == <<"simulated-outgoing-token">>
SimulatedQuoteId == "simulated-quote-id"

\* The file at private_key_path: None when it does not exist, else the key in it
KeyFiles == {None} \cup {Some([kind |-> kind, id |-> "private.key"]) : kind \in KeyKinds}

\* What the servers answer during the flow
FlowGrantResponses ==
    { Response(200, TRUE, [access_token |-> [value |-> Tok1, manage |-> "https://as/m/1"]]),
      Response(200, TRUE, [access_token |-> [value |-> TokEmpty, manage |-> "https://as/m/1"]]),
      Response(200, TRUE, [interact |-> [redirect |-> "https://as/interact/abc"]]),
      Response(200, TRUE, EmptyDict),
      Response(500, FALSE, EmptyDict) }

FlowResourceResponses ==
    { Response(201, TRUE, [id |-> "https://rs/ip/1"]),
      Response(200, TRUE, EmptyDict),
      Response(401, FALSE, EmptyDict) }

\* request_grant_* of the client self up to self.client.post
GrantPost(self, grant_request, now) ==
    LET url == self.auth_server_url \o "/"
        body == JsonDumps(grant_request)
        signed == GnapSignRequest(self, "POST", url, Some(body), now)
    IN  IF signed.raised THEN Raised(signed.exc)
        ELSE ClientSend(self, Request("POST", url, signed.headers, Some(body)))

\* create_quote of the client self up to self.client.post
QuotePost(self, receiver_wallet, send_amount, receive_amount, now) ==
    LET url == self.base_url \o "/quotes"
        payload == QuotePayload(receiver_wallet, send_amount, receive_amount)
        body == JsonDumps(payload[1])
        signed == OpSignRequest(self, "POST", url, Some(body), None, now)
    IN  IF payload = None THEN Raised(ValueError)
        ELSE IF signed.raised THEN Raised(signed.exc)
        ELSE ClientSend(self, Request("POST", url, signed.headers, Some(body)))

\* create_incoming_payment / create_outgoing_payment of the client self up to
\* self.client.post
ResourcePost(self, path, payload) ==
    ClientSend(self, Request("POST", self.resource_server_url \o path,
                             BearerHeaders(self.access_token, "Content-Type"),
                             Some(JsonDumps(payload))))

FlowWaiting == {"incoming_grant", "incoming_payment", "quote_grant", "quote",
                "outgoing_grant", "outgoing_payment"}

\* except Exception as e: print the error; main then returns
FlowCaught(exc) ==
    /\ pc' = "exited"
    /\ wire' = wire
    /\ log' = Append(log, Line("Error", <<exc>>))
    /\ outcome' = Return(None)

\* main goes on into its next call: the call raises before sending, or blocks
\* in self.client.post
FlowProceed(posting, next, printed) ==
    IF posting.raised
    THEN /\ pc' = "exited"
         /\ wire' = wire
         /\ log' = Append(log \o printed, Line("Error", <<posting.exc>>))
         /\ outcome' = Return(None)
    ELSE /\ pc' = next
         /\ wire' = Transmit(wire, posting.request)
         /\ log' = log \o printed
         /\ outcome' = NoOutcome

\* main from its first line to the post of the first grant request
FlowStart ==
    /\ pc = "start"
    /\ IF call.private_key = None
       THEN /\ gnap' = None
            /\ pc' = "exited"
            /\ wire' = wire
            /\ log' = Append(log, Line("No se encontraron las llaves", <<>>))
            /\ outcome' = Return(None)
       ELSE LET client == GNAPClient(AuthServerUrl, KeyIdPlain, call.private_key[1])
            IN  /\ gnap' = Some(client)
                /\ FlowProceed(GrantPost(client,
                                   NonInteractiveGrantRequest(<<FlowIncomingRight>>,
                                                              "music-site-client"), clock),
                               "incoming_grant", <<>>)
    /\ UNCHANGED <<rc, op, clock, call, answer, handle>>

\* incoming_grant.get("access_token", {}).get("value"), replaced by the
\* simulated token when it is missing or empty
IncomingToken(incoming_grant) ==
    LET value == Get(GetOr(incoming_grant, "access_token", EmptyDict), "value")
    IN  IF value = None \/ value[1] = <<>> THEN SimulatedIncomingToken ELSE value[1]

\* From the answer to the first grant request to the post of the incoming payment
FlowIncomingGrantAnswer(response) ==
    /\ pc = "incoming_grant"
    /\ answer' = Append(answer, response)
    /\ LET finish == NonInteractiveFinish(response).outcome IN
       IF finish.kind = "raise"
       THEN FlowCaught(finish.exc) /\ UNCHANGED <<rc, call>>
       ELSE LET incoming_token == IncomingToken(finish.value)
                resource_client == ResourceClient(ResourceServerUrl, incoming_token)
            IN  /\ rc' = Append(rc, resource_client)
                /\ call' = [call EXCEPT !.incoming_token = Some(incoming_token)]
                /\ FlowProceed(ResourcePost(resource_client, "/incoming-payments",
                                   IncomingPaymentPayload(BobWallet, Amount500, None,
                                       Some([description |-> "Canción: Melodía del Atardecer"]))),
                               "incoming_payment",
                               IF incoming_token = SimulatedIncomingToken
                               THEN <<Line("No se pudo obtener token para pago entrante", <<>>)>>
                               ELSE <<>>)
    /\ UNCHANGED <<gnap, op, clock, handle>>

\* From the answer to the incoming payment to the post of the quote grant request
FlowIncomingPaymentAnswer(response) ==
    /\ pc = "incoming_payment"
    /\ answer' = Append(answer, response)
    /\ LET finish == CreateIncomingPaymentFinish(
                         [wallet_address |-> BobWallet, incoming_amount |-> Amount500,
                          expires_at |-> None,
                          metadata |-> Some([description |-> "Canción: Melodía del Atardecer"])],
                         response).outcome IN
       IF finish.kind = "raise"
       THEN FlowCaught(finish.exc)
       ELSE FlowProceed(GrantPost(gnap[1],
                            NonInteractiveGrantRequest(<<FlowQuoteRight>>,
                                                       "music-site-client"), clock),
                        "quote_grant", <<>>)
    /\ UNCHANGED <<gnap, rc, op, clock, call, handle>>

\* From the answer to the quote grant request to the post of the quote
FlowQuoteGrantAnswer(response) ==
    /\ pc = "quote_grant"
    /\ answer' = Append(answer, response)
    /\ LET finish == NonInteractiveFinish(response).outcome IN
       IF finish.kind = "raise"
       THEN FlowCaught(finish.exc) /\ op' = op
       ELSE LET op_client == OpenPaymentsClient(AliciaWallet, call.private_key[1],
                                                KeyIdPlain, None)
            IN  /\ op' = Some(op_client)
                /\ FlowProceed(QuotePost(op_client, BobWallet, Some(Amount500), None, clock),
                               "quote", <<>>)
    /\ UNCHANGED <<gnap, rc, clock, call, handle>>

\* From the answer to the quote to the post of the interactive grant request
FlowQuoteAnswer(response, nonce) ==
    /\ pc = "quote"
    /\ answer' = Append(answer, response)
    /\ LET finish == CreateQuoteFinish(response).outcome IN
       IF finish.kind = "raise"
       THEN FlowCaught(finish.exc) /\ call' = call
       ELSE /\ call' = [call EXCEPT
                           !.quote_id = Some(GetOr(finish.value, "id", SimulatedQuoteId))]
            /\ FlowProceed(GrantPost(gnap[1],
                               InteractiveGrantRequest(<<FlowOutgoingRight>>,
                                   "music-site-client",
                                   "https://music-site.com/payment/callback", nonce), clock),
                           "outgoing_grant", <<>>)
    /\ UNCHANGED <<gnap, rc, op, clock, handle>>

\* From the answer to the interactive grant request to the post of the
\* outgoing payment: outgoing_token is the simulated one on both branches
FlowOutgoingGrantAnswer(response) ==
    /\ pc = "outgoing_grant"
    /\ answer' = Append(answer, response)
    /\ LET finish == InteractiveFinish(response).outcome IN
       IF finish.kind = "raise"
       THEN FlowCaught(finish.exc) /\ UNCHANGED <<rc, call, handle>>
       ELSE LET outgoing_token == SimulatedOutgoingToken
                resource_client_out == ResourceClient(ResourceServerUrl, outgoing_token)
            IN  /\ handle' = In("interact", finish.value)
                /\ rc' = Append(rc, resource_client_out)
                /\ call' = [call EXCEPT !.outgoing_token = Some(outgoing_token)]
                /\ FlowProceed(ResourcePost(resource_client_out, "/outgoing-payments",
                                   OutgoingPaymentPayload(AliciaWallet, call.quote_id[1],
                                       Some([note |-> "Pago por canción de Bob"]))),
                               "outgoing_payment",
                               IF In("interact", finish.value)
                               THEN <<Line("[SIMULADO] Alicia aprobo el pago", <<>>)>>
                               ELSE <<>>)
    /\ UNCHANGED <<gnap, op, clock>>

\* From the answer to the outgoing payment to the end of main: the four
\* close() calls are the last statements of the try block
FlowOutgoingPaymentAnswer(response) ==
    /\ pc = "outgoing_payment"
    /\ answer' = Append(answer, response)
    /\ LET finish == CreateOutgoingPaymentFinish(
                         [wallet_address |-> AliciaWallet, quote_id |-> call.quote_id[1],
                          metadata |-> Some([note |-> "Pago por canción de Bob"])],
                         response).outcome IN
       IF finish.kind = "raise"
       THEN FlowCaught(finish.exc) /\ UNCHANGED <<gnap, rc, op>>
       ELSE /\ gnap' = Some(Close(gnap[1]))
            /\ rc' = [i \in 1..Len(rc) |-> Close(rc[i])]
            /\ op' = Some(Close(op[1]))
            /\ pc' = "exited"
            /\ wire' = wire
            /\ log' = Append(log, Line("Transaccion completada", <<>>))
            /\ outcome' = Return(None)
    /\ UNCHANGED <<clock, call, handle>>

\* The request in flight gets no response: the post raises inside the try block
FlowTransportFailure ==
    /\ pc \in FlowWaiting
    /\ FlowCaught(TransportError)
    /\ UNCHANGED <<gnap, rc, op, clock, call, answer, handle>>

FlowInit ==
    /\ gnap = None
    /\ op = None
    /\ rc = <<>>
    /\ clock = 0
    /\ pc = "start"
    /\ \E key_file \in KeyFiles :
          call = [op |-> "main", private_key |-> key_file, incoming_token |-> None,
                  quote_id |-> None, outgoing_token |-> None]
    /\ wire = <<>>
    /\ log = <<>>
    /\ answer = <<>>
    /\ outcome = NoOutcome
    /\ handle = FALSE

FlowNext ==
    \/ FlowStart
    \/ \E response \in FlowGrantResponses : FlowIncomingGrantAnswer(response)
    \/ \E response \in FlowResourceResponses : FlowIncomingPaymentAnswer(response)
    \/ \E response \in FlowGrantResponses : FlowQuoteGrantAnswer(response)
    \/ \E response \in FlowResourceResponses, nonce \in Nonces : FlowQuoteAnswer(response, nonce)
    \/ \E response \in FlowGrantResponses : FlowOutgoingGrantAnswer(response)
    \/ \E response \in FlowResourceResponses : FlowOutgoingPaymentAnswer(response)
    \/ FlowTransportFailure
    \/ Tick

FlowSpec == FlowInit /\ [][FlowNext]_vars

----------------------------------------------------------------------------
(* Calls running at the same time on separate instances: one thread per
   client instance, each making blocking calls on its own instance.

   Under ConcSpec pc, call, wire, log, answer and outcome hold one entry per
   thread; gnap, op and rc are the three instances (gnap and op were built
   from the same key file). *)

Threads == {"gnap", "op", "rc"}

ConcRights == {<<RightQuote>>, <<RightIncoming, RightOutgoing>>}

\* A thread's call ends in its answer, with the results kept on the
\* ResourceClient instance another thread is using
ConcAnswerKeepingToken(t, response, finish) ==
    /\ pc[t] = "sent"
    /\ pc' = [pc EXCEPT ![t] = "idle"]
    /\ answer' = [answer EXCEPT ![t] = Some(response)]
    /\ outcome' = [outcome EXCEPT ![t] = finish.outcome]
    /\ log' = [log EXCEPT ![t] = log[t] \o finish.printed]
    /\ rc' = IF /\ finish.outcome.kind = "return"
                /\ In("access_token", finish.outcome.value)
                /\ In("value", finish.outcome.value.access_token)
             THEN [rc EXCEPT !.access_token = finish.outcome.value.access_token.value]
             ELSE rc
    /\ UNCHANGED <<gnap, op, clock, call, wire, handle>>

\* The server's answer reaches the handler thread t is blocked in
ConcAnswer(t, response, finish) ==
    /\ pc[t] = "sent"
    /\ pc' = [pc EXCEPT ![t] = "idle"]
    /\ answer' = [answer EXCEPT ![t] = Some(response)]
    /\ outcome' = [outcome EXCEPT ![t] = finish.outcome]
    /\ log' = [log EXCEPT ![t] = log[t] \o finish.printed]
    /\ UNCHANGED <<gnap, rc, op, clock, call, wire, handle>>

\* Thread t runs a handler up to its self.client.post
ConcSend(t, c, posting, printed) ==
    /\ pc[t] = "idle"
    /\ call' = [call EXCEPT ![t] = c]
    /\ log' = [log EXCEPT ![t] = printed]
    /\ answer' = [answer EXCEPT ![t] = None]
    /\ wire' = [wire EXCEPT ![t] = IF posting.raised THEN <<>>
                                   ELSE Transmit(<<>>, posting.request)]
    /\ pc' = [pc EXCEPT ![t] = IF posting.raised THEN "idle" ELSE "sent"]
    /\ outcome' = [outcome EXCEPT ![t] = IF posting.raised THEN Raise(posting.exc)
                                         ELSE NoOutcome]
    /\ UNCHANGED <<gnap, rc, op, clock, handle>>

\* What a call record makes its instance send, alone, at the clock reading
\* the call was made at
PostingOf(c) ==
    CASE c.op = "request_grant_non_interactive" ->
             GrantPost(gnap, NonInteractiveGrantRequest(c.access_rights, c.client_id), c.now)
      [] c.op = "create_quote" ->
             QuotePost(op, c.receiver_wallet, c.send_amount, c.receive_amount, c.now)
      [] c.op = "create_incoming_payment" ->
             ResourcePost(rc, "/incoming-payments",
                          IncomingPaymentPayload(c.wallet_address, c.incoming_amount,
                                                 c.expires_at, c.metadata))

ConcRequestGrant(access_rights, client_id) ==
    LET c == [op |-> "request_grant_non_interactive", access_rights |-> access_rights,
              client_id |-> client_id, now |-> clock]
    IN  ConcSend("gnap", c, PostingOf(c),
                 GrantRequestLines("Solicitando concesion no interactiva", access_rights))

ConcRequestGrantAnswer(response) ==
    ConcAnswer("gnap", response, NonInteractiveFinish(response))

ConcCreateQuote(receiver_wallet, send_amount, receive_amount) ==
    LET c == [op |-> "create_quote", receiver_wallet |-> receiver_wallet,
              send_amount |-> send_amount, receive_amount |-> receive_amount,
              now |-> clock]
    IN  ConcSend("op", c, PostingOf(c),
                 IF PostingOf(c).raised THEN <<>>
                 ELSE <<Line("Creando cotizacion para", <<receiver_wallet>>)>>)

ConcCreateQuoteAnswer(response) ==
    ConcAnswer("op", response, CreateQuoteFinish(response))

ConcCreateIncomingPayment(wallet_address, incoming_amount, expires_at, metadata) ==
    LET c == [op |-> "create_incoming_payment", wallet_address |-> wallet_address,
              incoming_amount |-> incoming_amount, expires_at |-> expires_at,
              metadata |-> metadata]
    IN  ConcSend("rc", c, PostingOf(c),
                 <<Line("Creando pago entrante", <<>>),
                   Line("Receptor", <<wallet_address>>),
                   Line("Monto", <<incoming_amount>>)>>)

ConcCreateIncomingPaymentAnswer(response) ==
    ConcAnswer("rc", response, CreateIncomingPaymentFinish(call["rc"], response))

\* The request thread t has in flight gets no response
ConcTransportFailure(t) ==
    /\ pc[t] = "sent"
    /\ pc' = [pc EXCEPT ![t] = "idle"]
    /\ outcome' = [outcome EXCEPT ![t] = Raise(TransportError)]
    /\ UNCHANGED <<gnap, rc, op, clock, call, wire, log, answer, handle>>

ConcInit ==
    /\ \E kind \in KeyKinds :
          /\ gnap = GNAPClient(AuthServerUrl, KeyIdPlain, [kind |-> kind, id |-> "private.key"])
          /\ op = OpenPaymentsClient(AliciaWallet, [kind |-> kind, id |-> "private.key"],
                                     KeyIdPlain, None)
    /\ rc = ResourceClient(ResourceServerUrl, Tok1)
    /\ clock = 0
    /\ pc = [t \in Threads |-> "idle"]
    /\ call = [t \in Threads |-> [op |-> "none"]]
    /\ wire = [t \in Threads |-> <<>>]
    /\ log = [t \in Threads |-> <<>>]
    /\ answer = [t \in Threads |-> None]
    /\ outcome = [t \in Threads |-> NoOutcome]
    /\ handle = FALSE

ConcNext ==
    \/ \E access_rights \in ConcRights, client_id \in ClientIds :
          ConcRequestGrant(access_rights, client_id)
    \/ \E response \in FlowGrantResponses : ConcRequestGrantAnswer(response)
    \/ \E receiver_wallet \in WalletAddresses, receive_amount \in {None, Some(Amount500)} :
          ConcCreateQuote(receiver_wallet, Some(Amount500), receive_amount)
    \/ \E response \in FlowResourceResponses : ConcCreateQuoteAnswer(response)
    \/ \E wallet_address \in WalletAddresses, incoming_amount \in Amounts :
          ConcCreateIncomingPayment(wallet_address, incoming_amount, None, None)
    \/ \E response \in FlowResourceResponses : ConcCreateIncomingPaymentAnswer(response)
    \/ \E t \in Threads : ConcTransportFailure(t)
    \/ Tick

ConcSpec == ConcInit /\ [][ConcNext]_vars

----------------------------------------------------------------------------
(* Properties *)

GrantOps == {"request_grant_non_interactive", "request_grant_interactive"}
\* The calls of close(), which send nothing
CloseCalls == {"GNAPClient.close", "ResourceClient.close", "OpenPaymentsClient.close"}
ResourceOps == {"create_incoming_payment", "get_incoming_payment",
                "create_outgoing_payment", "get_outgoing_payment"}

\* The call in `call` has been answered with a 2xx response holding a JSON document
Answered2xxJson == answer # None /\ IsSuccess(answer[1]) /\ answer[1].is_json

\* The JSON document a transmitted request carries as content
SentDocument(request) == request.content[1][2]

\* C1: request_grant_non_interactive fails with UnexpectedInteractionRequired
\* whenever the server answers 2xx with an interaction handle instead of a
\* token; it never returns that response as a normal result.
C1_NonInteractiveRejectsInteraction ==
    ( /\ call.op = "request_grant_non_interactive"
      /\ Answered2xxJson
      /\ In("interact", answer[1].body)
      /\ ~In("access_token", answer[1].body) )
    => ( /\ outcome.kind = "raise"
         /\ outcome.exc.type = "UnexpectedInteractionRequired" )

\* C2: for both grant requests, a 2xx response with neither an access token
\* nor an interaction handle makes the operation fail with ProtocolError; no
\* result is produced.
C2_EmptyResponseIsProtocolError ==
    ( /\ call.op \in GrantOps
      /\ Answered2xxJson
      /\ ~In("interact", answer[1].body)
      /\ ~In("access_token", answer[1].body) )
    => ( /\ outcome.kind = "raise"
         /\ outcome.exc.type = "ProtocolError" )

\* C3: a continue_grant call made while the caller holds no interaction
\* handle from an earlier grant request fails with InvalidContinuation and
\* sends no request to the continuation URI.
C3_ContinueNeedsHandle ==
    ( call.op = "continue_grant" /\ ~handle )
    => ( /\ wire = <<>>
         /\ pc = "idle"
         /\ outcome.kind = "raise"
         /\ outcome.exc.type = "InvalidContinuation" )

\* C4: a 401 answer to any ResourceClient operation surfaces as the distinct
\* error TokenExpired, never as the generic HTTP error of the other non-2xx
\* statuses.
C4_UnauthorizedIsTokenExpired ==
    ( /\ call.op \in ResourceOps
      /\ answer # None
      /\ answer[1].status_code = 401 )
    => ( /\ outcome.kind = "raise"
         /\ outcome.exc.type = "TokenExpired" )

\* C5: any non-2xx answer to a grant request, a grant continuation or a
\* ResourceClient operation makes the operation fail with an error that
\* carries the HTTP status and the response body; nothing is returned.
C5_NonSuccessFailsWithStatusAndBody ==
    ( /\ call.op \in GrantOps \cup {"continue_grant"} \cup ResourceOps
      /\ answer # None
      /\ ~IsSuccess(answer[1]) )
    => ( /\ outcome.kind = "raise"
         /\ outcome.exc.type = "HTTPStatusError"
         /\ outcome.exc.response.status_code = answer[1].status_code
         /\ outcome.exc.response.is_json = answer[1].is_json
         /\ outcome.exc.response.body = answer[1].body )

\* A ResourceClient create was answered 401 with a JSON body and has raised
C5_Witness ==
    /\ call.op = "create_incoming_payment"
    /\ answer # None
    /\ answer[1].status_code = 401
    /\ answer[1].body # EmptyDict
    /\ outcome.kind = "raise"

\* C6: one call of any operation transmits at most one HTTP request whatever
\* the answer, and every failure (a non-2xx or unparsable answer, no answer
\* at all, a failure before the send) is raised to the caller.
C6_NoRetryAndFailuresReported ==
    /\ Len(wire) <= 1
    /\ (answer # None) => Len(wire) = 1
    /\ (answer # None /\ (~IsSuccess(answer[1]) \/ ~answer[1].is_json))
           => outcome.kind = "raise"
    /\ (pc = "idle" /\ call.op \notin {"none"} \cup CloseCalls /\ answer = None)
           => outcome.kind = "raise"

\* A resource call answered 401 has raised after exactly one transmission
C6_Witness ==
    /\ call.op = "create_outgoing_payment"
    /\ answer # None
    /\ answer[1].status_code = 401
    /\ Len(wire) = 1
    /\ outcome.kind = "raise"

\* C7: every body sent by request_grant_non_interactive has no "interact"
\* field, and every body sent by request_grant_interactive has "interact"
\* with start = ["redirect"] and finish = {method: "redirect", uri: the
\* caller's redirect_uri, nonce}.
C7_InteractIffInteractive ==
    \A i \in 1..Len(wire) :
        /\ call.op = "request_grant_non_interactive"
               => ~In("interact", SentDocument(wire[i]))
        /\ call.op = "request_grant_interactive"
               => /\ In("interact", SentDocument(wire[i]))
                  /\ LET interact == SentDocument(wire[i]).interact IN
                     /\ DOMAIN interact = {"start", "finish"}
                     /\ interact.start = <<"redirect">>
                     /\ DOMAIN interact.finish = {"method", "uri", "nonce"}
                     /\ interact.finish.method = "redirect"
                     /\ interact.finish.uri = call.redirect_uri
                     /\ interact.finish.nonce \in Nonces

\* An interactive grant request is on the wire
C7_Witness ==
    /\ pc = "sent"
    /\ call.op = "request_grant_interactive"
    /\ Len(wire) = 1
    /\ call.redirect_uri = "https://app/cb"

\* C8: a grant operation hands the server's answer over unchanged: a 2xx
\* response with access_token.value = v yields a result whose token value is
\* v, and a response to request_grant_interactive with interact.redirect = u
\* yields a result whose redirect is u.
C8_AnswerHandedOverUnchanged ==
    /\ ( /\ call.op \in GrantOps
         /\ Answered2xxJson
         /\ In("access_token", answer[1].body)
         /\ In("value", answer[1].body.access_token) )
       => ( /\ outcome.kind = "return"
            /\ outcome.value.access_token.value = answer[1].body.access_token.value )
    /\ ( /\ call.op = "request_grant_interactive"
         /\ Answered2xxJson
         /\ In("interact", answer[1].body)
         /\ In("redirect", answer[1].body.interact) )
       => ( /\ outcome.kind = "return"
            /\ outcome.value.interact.redirect = answer[1].body.interact.redirect )

\* C9: whenever continue_grant returns normally, the returned response
\* carries an access token.
C9_ContinueReturnsToken ==
    ( call.op = "continue_grant" /\ outcome.kind = "return" )
    => In("access_token", outcome.value)

\* C10: whenever a grant operation has reported a token to the caller, the
\* token's value is a non-empty string.
C10_ReportedTokenNonEmpty ==
    ( /\ call.op \in GrantOps \cup {"continue_grant"}
      /\ outcome.kind = "return"
      /\ In("access_token", outcome.value) )
    => ( /\ In("value", outcome.value.access_token)
         /\ outcome.value.access_token.value # <<>> )

\* The operations that post to /incoming-payments or /outgoing-payments or read
\* such a resource
PaymentOps == ResourceOps \cup {"op_create_outgoing_payment"}

\* C11: every request that creates or reads an incoming-payment or
\* outgoing-payment resource carries Authorization: GNAP <token> with the
\* token the client was constructed with and no Signature or Signature-Input
\* header, on every code path, OpenPaymentsClient.create_outgoing_payment
\* included.
C11_PaymentRequestsAreBearerOnly ==
    call.op \in PaymentOps =>
        \A i \in 1..Len(wire) :
            /\ In("Authorization", wire[i].headers)
            /\ wire[i].headers["Authorization"] = <<"GNAP", rc.access_token>>
            /\ ~In("Signature", wire[i].headers)
            /\ ~In("Signature-Input", wire[i].headers)


\* The operations whose handler calls _sign_request, and those that send a
\* bearer token instead
SignedOps == GrantOps \cup {"create_quote", "op_create_outgoing_payment"}
BearerOps == ResourceOps \cup {"continue_grant"}

\* What the signing operation of the client behind operation o hands back for
\* a request, at clock reading now
SignedHeadersAt(o, request, now) ==
    IF o \in GrantOps
    THEN GnapSignRequest(gnap, request.method, request.url, request.content, now)
    ELSE OpSignRequest(op, request.method, request.url, request.content, None, now)

\* C12: every request that carries credentials (grant request, grant
\* continuation, quote creation, resource create/read) is sent with Signature
\* and Signature-Input headers.
C12_EveryAuthorizedRequestSigned ==
    call.op \in GrantOps \cup {"continue_grant", "create_quote"} \cup ResourceOps =>
        \A i \in 1..Len(wire) :
            /\ In("Signature", wire[i].headers)
            /\ In("Signature-Input", wire[i].headers)

\* C12, amended: every grant request and every OpenPaymentsClient request with
\* a body (quote creation, its create_outgoing_payment) is sent with the
\* Signature and Signature-Input headers the signing operation produces for
\* that request; grant continuation and ResourceClient requests carry an
\* Authorization header and neither signature header.
C12_SignedWhereTheHandlerSigns ==
    \A i \in 1..Len(wire) :
        /\ call.op \in SignedOps =>
               /\ In("Signature", wire[i].headers)
               /\ In("Signature-Input", wire[i].headers)
               /\ \E now \in 0..clock :
                      wire[i].headers = SignedHeadersAt(call.op, wire[i], now).headers
        /\ call.op \in BearerOps =>
               /\ In("Authorization", wire[i].headers)
               /\ ~In("Signature", wire[i].headers)
               /\ ~In("Signature-Input", wire[i].headers)

\* A signed grant request is on the wire
C12_Witness ==
    /\ pc = "sent"
    /\ call.op = "request_grant_non_interactive"
    /\ Len(wire) = 1
    /\ In("Signature", wire[1].headers)

\* C13: get_incoming_payment(u) and get_outgoing_payment(u) issue a GET whose
\* target is exactly u, and hand the server's document back unchanged, so
\* that reading the id a create returned round-trips that id.
C13_ReadsReuseIdentifier ==
    call.op \in {"get_incoming_payment", "get_outgoing_payment"} =>
        /\ \A i \in 1..Len(wire) :
               /\ wire[i].method = "GET"
               /\ wire[i].url = call.payment_id
               /\ wire[i].content = None
        /\ Answered2xxJson =>
               /\ outcome.kind = "return"
               /\ outcome.value = answer[1].body

\* A read of a URL that is not under the Resource Server's address has
\* returned a document with an id
C13_Witness ==
    /\ call.op = "get_incoming_payment"
    /\ call.payment_id = "https://other/op/9"
    /\ Answered2xxJson
    /\ In("id", answer[1].body)
    /\ outcome.kind = "return"

\* C14: the completed flag of a returned IncomingPayment and the failed flag
\* of a returned OutgoingPayment are the server's: present with the server's
\* value when the response has the field, absent when it has not.
C14_FlagsAreTheServers ==
    /\ (call.op = "create_incoming_payment" /\ outcome.kind = "return")
           => Some(outcome.value.completed) = Get(answer[1].body, "completed")
    /\ (call.op = "create_outgoing_payment" /\ outcome.kind = "return")
           => Some(outcome.value.failed) = Get(answer[1].body, "failed")

\* The private key of the client behind a signed operation
SigningKey == IF call.op \in GrantOps THEN gnap.private_key ELSE op.private_key

\* C19: if the key cannot produce a signature, a grant request or a quote
\* creation fails with the signing error and transmits nothing.
C19_SigningFailureSendsNothing ==
    (call.op \in GrantOps \cup {"create_quote"} /\ SigningKey.kind # "ed25519") =>
        /\ pc = "idle"
        /\ wire = <<>>
        /\ answer = None
        /\ outcome.kind = "raise"
        /\ outcome.exc \in {TypeError, ValueError}
        /\ outcome.exc = ValueError =>
               /\ call.op = "create_quote"
               /\ QuotePayload(call.receiver_wallet, call.send_amount,
                               call.receive_amount) = None

\* A grant request made with a key that cannot sign has raised
C19_Witness ==
    /\ call.op = "request_grant_interactive"
    /\ gnap.private_key.kind = "rsa"
    /\ outcome = Raise(TypeError)
    /\ wire = <<>>

\* C20: each transmitted request of a signed operation carries the headers
\* signed in that same call, at the clock reading of that call, over exactly
\* the method, URL and body transmitted; nothing is sent again afterwards.
C20_HeadersSignedInTheSameCall ==
    [][ /\ (pc = "idle" /\ pc' = "sent" /\ call'.op \in SignedOps) =>
               /\ Len(wire') = 1
               /\ wire'[1].headers = SignedHeadersAt(call'.op, wire'[1], clock).headers
        /\ pc = "sent" => wire' = wire ]_vars

\* A grant request signed after the clock has advanced is on the wire
C20_Witness ==
    /\ pc = "sent"
    /\ call.op = "request_grant_interactive"
    /\ clock = 1
    /\ wire[1].headers["Signature-Input"] = SignatureInputHeader(IsoFormat(1))

----------------------------------------------------------------------------
(* Properties of the signing operation, under SignSpec *)

SignCalls == {"GNAPClient._sign_request", "OpenPaymentsClient._sign_request"}

\* A call of _sign_request has returned its headers
Signed == call.op \in SignCalls /\ outcome.kind = "return"

\* The key id of the client whose _sign_request was called
ConfiguredKeyId ==
    IF call.op = "GNAPClient._sign_request" THEN gnap.client_key_id ELSE op.key_id

\* The base64 text inside a Signature header, the signature it encodes and the
\* message that was signed
SignatureText(headers) == headers["Signature"][Len(headers["Signature"]) - 1].blob
SignedMessage(headers) == SignatureText(headers)[2][3]

\* The content digest embedded in a signed message, None when there is none
EmbeddedDigest(message) == IF Len(message) = 4 THEN Some(message[4]) ELSE None

\* What the same client hands back for the same method, url and clock reading
\* and another body
SignedWith(body) ==
    IF call.op = "GNAPClient._sign_request"
    THEN GnapSignRequest(gnap, call.method, call.url, body, call.now)
    ELSE OpSignRequest(op, call.method, call.url, body, call.headers, call.now)

\* Reading a Signature header of the form
\* keyId="<id>",algorithm="<alg>",signature="<b64>": None when the text has not
\* that form
QuotePositions(h) == {i \in 1..Len(h) : h[i] = Quote}
NthOf(S, n) == CHOOSE i \in S : Cardinality({j \in S : j < i}) = n - 1
ParseSignatureHeader(h) ==
    LET q == QuotePositions(h)
        at(n) == NthOf(q, n)
    IN  IF /\ Cardinality(q) = 6
           /\ SubSeq(h, 1, at(1) - 1) = Text("keyId=")
           /\ SubSeq(h, at(2) + 1, at(3) - 1) = Text(",algorithm=")
           /\ SubSeq(h, at(4) + 1, at(5) - 1) = Text(",signature=")
           /\ at(6) = Len(h)
        THEN Some([keyId |-> SubSeq(h, at(1) + 1, at(2) - 1),
                   algorithm |-> SubSeq(h, at(3) + 1, at(4) - 1),
                   signature |-> SubSeq(h, at(5) + 1, at(6) - 1)])
        ELSE None

\* C15: the string that is signed is METHOD, URL, timestamp when no body is
\* present, and that followed by base64(SHA-256(body)) whenever a body is
\* present, a present but empty body included.
C15_SigningString ==
    Signed =>
        SignedMessage(outcome.value) =
            IF call.body = None
            THEN <<call.method, call.url, IsoFormat(call.now)>>
            ELSE <<call.method, call.url, IsoFormat(call.now), B64(Sha256(call.body[1]))>>

\* C17: the Signature header reads back as exactly the configured keyId, the
\* algorithm ed25519 and the signature that was computed, and Signature-Input
\* records the timestamp that was signed.
C17_SignatureHeaderRoundTrip ==
    Signed =>
        /\ ParseSignatureHeader(outcome.value["Signature"])
               = Some([keyId |-> ConfiguredKeyId,
                       algorithm |-> Text("ed25519"),
                       signature |-> Blob(SignatureText(outcome.value))])
        /\ outcome.value["Signature-Input"]
               = SignatureInputHeader(SignedMessage(outcome.value)[3])

\* C18: for a fixed key, method, url and timestamp, a body different from the
\* one that was signed yields a different embedded content digest and a
\* different signature.
C18_BodyChangesSignature ==
    (Signed /\ call.body # None) =>
        \A body \in SignBodies \ {None, call.body} :
            LET other == SignedWith(body).headers IN
            /\ EmbeddedDigest(SignedMessage(other))
                   # EmbeddedDigest(SignedMessage(outcome.value))
            /\ other["Signature"] # outcome.value["Signature"]

\* A request body has been signed at a later clock reading
C18_Witness ==
    /\ Signed
    /\ call.body = Some(JsonDumps([a |-> "1"]))
    /\ call.now = 1

\* The grant response the call in `call` received, when it was a 2xx JSON answer
GrantCalls == GrantOps \cup {"continue_grant"}
ReceivedToken ==
    /\ call.op \in GrantCalls
    /\ Answered2xxJson
    /\ In("access_token", answer[1].body)
    /\ In("value", answer[1].body.access_token)

\* C21: for every token a grant operation or continuation receives, whatever
\* its length, no line the client prints holds the complete token value.
C21_TokenNeverLoggedInFull ==
    ReceivedToken =>
        \A i \in 1..Len(log) :
            log[i].label = "Token" => log[i].arg # answer[1].body.access_token.value

\* The nonce of the interactive grant request on the wire
SentNonce(w) == SentDocument(w[1]).interact.finish.nonce

\* C23: every interactive grant request carries a nonce generated for that
\* request from at least 32 random bytes, URL-safe encoded; whatever happened
\* before, the next request can carry any value the random source hands out,
\* and no field of the client holds a nonce.
C23_NonceFreshPerRequest ==
    /\ (call.op = "request_grant_interactive" /\ wire # <<>>) =>
           /\ SentNonce(wire).nbytes >= 32
           /\ SentNonce(wire).encoding = "urlsafe-base64"
           /\ SentNonce(wire).bytes \in RandomDraws
    /\ (pc = "idle" /\ CanSign(gnap.private_key) /\ gnap.client = "open") =>
           \A drawn \in RandomDraws :
               ENABLED ( /\ \E access_rights \in AccessRightLists, client_id \in ClientIds,
                               redirect_uri \in RedirectUris, nonce \in Nonces :
                               RequestGrantInteractive(access_rights, client_id,
                                                       redirect_uri, nonce)
                         /\ SentNonce(wire').bytes = drawn )
    /\ DOMAIN gnap = {"auth_server_url", "client_key_id", "private_key", "client"}

\* A second interactive request is on the wire with the same random draw as
\* could have been sent before, after an earlier interactive call was answered
C23_Witness ==
    /\ call.op = "request_grant_interactive"
    /\ pc = "sent"
    /\ handle
    /\ SentNonce(wire).bytes = "draw-b"

\* C24: the transmitted access_token array has the length and order of the
\* caller's access_rights, each entry carries the right's type and actions,
\* and carries identifier (limits) exactly when the right has one set.
C24_AccessRightsRoundTrip ==
    (call.op \in GrantOps /\ wire # <<>>) =>
        LET sent == SentDocument(wire[1]).access_token
            rights == call.access_rights
        IN  /\ Len(sent) = Len(rights)
            /\ \A i \in 1..Len(rights) :
                   /\ sent[i].type = rights[i].type
                   /\ sent[i].actions = rights[i].actions
                   /\ In("identifier", sent[i]) <=> rights[i].identifier # None
                   /\ In("limits", sent[i]) <=> rights[i].limits # None
                   /\ In("identifier", sent[i]) => sent[i].identifier = rights[i].identifier[1]
                   /\ In("limits", sent[i]) => sent[i].limits = rights[i].limits[1]

\* C25: every transmitted grant request has a non-empty list of access rights
\* and every right in it has a non-empty list of actions.
C25_TransmittedRightsNonEmpty ==
    (call.op \in GrantOps /\ wire # <<>>) =>
        LET sent == SentDocument(wire[1]).access_token
        IN  /\ Len(sent) > 0
            /\ \A i \in 1..Len(sent) : Len(sent[i].actions) > 0

\* C26: every quote-creation request is a signed POST to {base_url}/quotes
\* whose body has walletAddress, method "ilp" and exactly one of sendAmount or
\* receiveAmount; with no amount create_quote raises before signing or
\* sending, with both only sendAmount is sent.
C26_QuoteRequestHasOneAmount ==
    call.op = "create_quote" =>
        /\ \A i \in 1..Len(wire) :
               LET sent == SentDocument(wire[i]) IN
               /\ wire[i].method = "POST"
               /\ wire[i].url = op.base_url \o "/quotes"
               /\ In("Signature", wire[i].headers)
               /\ In("Signature-Input", wire[i].headers)
               /\ sent.walletAddress = call.receiver_wallet
               /\ sent.method = "ilp"
               /\ In("sendAmount", sent) # In("receiveAmount", sent)
               /\ TruthyDict(call.send_amount) =>
                      /\ sent.sendAmount = call.send_amount[1]
                      /\ ~In("receiveAmount", sent)
               /\ ~TruthyDict(call.send_amount) =>
                      sent.receiveAmount = call.receive_amount[1]
        /\ (~TruthyDict(call.send_amount) /\ ~TruthyDict(call.receive_amount)) =>
               /\ wire = <<>>
               /\ pc = "idle"
               /\ outcome = Raise(ValueError)

\* A quote request made with both amounts is on the wire
C26_Witness ==
    /\ call.op = "create_quote"
    /\ call.send_amount = Some(Amount500)
    /\ call.receive_amount = Some(Amount500)
    /\ Len(wire) = 1

\* The terminal states of a grant negotiation
Granted == outcome.kind = "return" /\ In("access_token", outcome.value)
PendingInteraction ==
    outcome.kind = "return" /\ In("interact", outcome.value)
    /\ ~In("access_token", outcome.value)
Failed == outcome.kind = "raise"

\* C27: a grant negotiation is either SENT (one request out, no outcome yet)
\* or, once the call is over, in exactly one of GRANTED, PENDING_INTERACTION
\* or FAILED.
C27_NegotiationEndsInOneTerminalState ==
    call.op \in GrantOps =>
        \/ pc = "sent" /\ outcome = NoOutcome /\ Len(wire) = 1
        \/ pc = "idle" /\ (Granted \/ PendingInteraction \/ Failed)

\* The order of the steps of one negotiation: a request is sent once from
\* idle, and the call ends from sent with one outcome that later steps of the
\* same call never replace
NegotiationStepsInOrder ==
    [][ /\ (pc = "idle" /\ pc' = "sent") => (Len(wire') = 1 /\ outcome' = NoOutcome)
        /\ (pc = "sent" /\ pc' = "idle") => (wire' = wire /\ outcome' # NoOutcome)
        /\ (pc = "sent") => pc' = "idle" \/ (pc' = "sent" /\ wire' = wire) ]_vars

\* What the handler of the call in c makes of a response
FinishOf(c, response) ==
    CASE c.op = "request_grant_non_interactive" -> NonInteractiveFinish(response)
      [] c.op = "request_grant_interactive" -> InteractiveFinish(response)
      [] c.op = "continue_grant" -> ContinueFinish(response)
      [] c.op = "create_incoming_payment" -> CreateIncomingPaymentFinish(c, response)
      [] c.op = "get_incoming_payment" -> GetIncomingPaymentFinish(response)
      [] c.op = "create_outgoing_payment" -> CreateOutgoingPaymentFinish(c, response)
      [] c.op = "get_outgoing_payment" -> GetOutgoingPaymentFinish(response)
      [] c.op = "create_quote" -> CreateQuoteFinish(response)
      [] c.op = "op_create_outgoing_payment" -> OpCreateOutgoingPaymentFinish(response)
      [] c.op = "get_wallet_info" -> GetWalletInfoFinish(response)

\* C28: no grant, continuation, quote or resource operation changes a field of
\* a client instance, whether it returns, raises or gets no response (only a
\* call of close() changes one); the outcome of an answered call is determined
\* by its own arguments and the server's response.
C28_OperationsLeaveInstancesAlone ==
    /\ [][call'.op \notin CloseCalls => (gnap' = gnap /\ rc' = rc /\ op' = op)]_vars
    /\ [](answer # None => outcome = FinishOf(call, answer[1]).outcome)

\* A grant request got no response and the call was abandoned
C28_Witness ==
    /\ call.op = "request_grant_interactive"
    /\ outcome = Raise(TransportError)
    /\ wire # <<>>

----------------------------------------------------------------------------
(* Properties of the end-to-end flow, under FlowSpec *)

\* The requests of the flow that are authorized by a bearer token
IsResourceRequest(request) == In("Authorization", request.headers)

\* A GRANTED response: a 2xx JSON grant response with a non-empty token value
GrantedToken(response, token) ==
    /\ IsSuccess(response) /\ response.is_json
    /\ In("access_token", response.body)
    /\ In("value", response.body.access_token)
    /\ response.body.access_token.value = token
    /\ token # <<>>

\* C22: in the flow, every ResourceClient request is sent with a token value
\* that an earlier GRANTED grant response carried; after a grant request that
\* returned an interaction handle or no token, no resource request is sent
\* until a token has been obtained.
C22_ResourceRequestsUseGrantedTokens ==
    \A i \in 1..Len(wire) :
        IsResourceRequest(wire[i]) =>
            \E j \in 1..(i - 1) :
                GrantedToken(answer[j], wire[i].headers["Authorization"][2])

\* The clients main has constructed
FlowClients ==
    (IF gnap = None THEN {} ELSE {gnap[1]})
    \cup (IF op = None THEN {} ELSE {op[1]})
    \cup {rc[i] : i \in 1..Len(rc)}

\* C30: each client holds one HTTP handle from its construction on, and once
\* the flow has exited, on whatever path, every handle that was acquired has
\* been released.
C30_HandlesReleasedOnEveryExit ==
    /\ \A client \in FlowClients : client.client \in {"open", "closed"}
    /\ pc = "exited" => \A client \in FlowClients : client.client = "closed"

----------------------------------------------------------------------------
(* Properties of concurrent calls, under ConcSpec *)

\* Everything that belongs to the call of thread t
ThreadState(t) == <<pc[t], call[t], wire[t], log[t], answer[t], outcome[t]>>

\* What the call of thread t sends when it runs alone
AloneWire(t) ==
    IF call[t].op = "none" \/ PostingOf(call[t]).raised THEN <<>>
    ELSE <<PostingOf(call[t]).request>>

\* C29: calls running at the same time on separate instances do not affect
\* one another: under every interleaving each thread's request is the one its
\* own arguments and instance produce, its result is the one its own
\* response produces, a step of one thread changes nothing of another's call,
\* and the instances, the signing key included, are only read.
C29_ConcurrentCallsIndependent ==
    /\ [](\A t \in Threads :
             /\ wire[t] = AloneWire(t)
             /\ answer[t] # None =>
                    outcome[t] = FinishOf(call[t], answer[t][1]).outcome)
    /\ [][ /\ gnap' = gnap /\ rc' = rc /\ op' = op
           /\ \A t, u \in Threads :
                  (t # u /\ ThreadState(t)' # ThreadState(t))
                      => ThreadState(u)' = ThreadState(u) ]_vars

\* Two signed calls that share the key are in flight while a resource call
\* made on the third instance has returned
C29_Witness ==
    /\ DOMAIN pc = Threads
    /\ pc["gnap"] = "sent"
    /\ pc["op"] = "sent"
    /\ outcome["rc"].kind = "return"
    /\ gnap.private_key = op.private_key

====
